---- MODULE Spec2Model ----
(***************************************************************************)
(* Model of the report orchestrator of the student-report service          *)
(* (go-service/internal/service/report.go): ReportService with its two     *)
(* collaborators, the Node.js student data client and the PDF generator.   *)
(* One call is in progress at a time (each invocation is self-contained);  *)
(* the wall clock advances between the steps of a call.                    *)
(***************************************************************************)
EXTENDS Integers, Sequences, FiniteSets, TLC

\* ---------------------------------------------------------------- bounds
MaxStudentID == 11
MinClock == 17
MaxClock == 22
TicksPerSecond == 2

StudentIDs == -1 .. MaxStudentID
Actors == {"admin1", "teacher2"}
Names == {<<"Ada", "Lovelace">>, <<"Alan", "Turing">>}
Paths == {"/reports/42.pdf", "/reports/7.pdf"}
FileSizes == {0, 10240}
CollaboratorErrors == {"connection refused"}

VARIABLES
    rs,          \* the ReportService: its nodeClient and pdfGenerator fields
    ctor,        \* the constructor that built rs
    clock,       \* wall clock, in ticks (TicksPerSecond ticks per second)
    op,          \* the method being executed, "none" between calls
    pc,          \* position inside the method
    studentID,   \* argument of GenerateStudentReport
    generatedBy, \* argument of GenerateStudentReport
    student,     \* local: the fetched *models.Student
    metadata,    \* local: the *models.ReportMetadata
    filePath,    \* local: the path the generator returned
    statOut,     \* what os.Stat answered for filePath
    calls,       \* collaborator methods invoked during the current call
    returns,     \* the error value each completed invocation returned
    result,      \* returned *ReportResult
    err,         \* returned error
    status       \* returned *HealthStatus

vars == <<rs, ctor, clock, op, pc, studentID, generatedBy, student, metadata,
          filePath, statOut, returns, calls, result, err, status>>

locals == <<studentID, generatedBy, student, metadata, filePath, statOut,
            returns, calls, result, err, status>>

\* ------------------------------------------------- Go values: interfaces
\* A pointer is allocated or nil.  An interface value is a (dynamic type,
\* pointer) pair; it compares equal to nil only when it has no dynamic type.
Pointers == {"allocated", "nil"}
ToInterface(typ, ptr) == [typ |-> typ, val |-> ptr]
NilInterface == [typ |-> "nil", val |-> "nil"]

InterfaceValues(typ) == {ToInterface(typ, p) : p \in Pointers} \cup {NilInterface}

\* ------------------------------------------------------ Go values: errors
NilError == [isNil |-> TRUE, msg |-> "", arg |-> 0, wraps |-> ""]
NewError(m) == [isNil |-> FALSE, msg |-> m, arg |-> 0, wraps |-> ""]
Errorf(format, arg, cause) ==
    [isNil |-> FALSE, msg |-> format, arg |-> arg, wraps |-> cause.msg]

\* ------------------------------------------------------ time and strings
Now == clock
Unix(t) == t \div TicksPerSecond

Digit(d) == CASE d = 0 -> "0" [] d = 1 -> "1" [] d = 2 -> "2" [] d = 3 -> "3"
              [] d = 4 -> "4" [] d = 5 -> "5" [] d = 6 -> "6" [] d = 7 -> "7"
              [] d = 8 -> "8" [] d = 9 -> "9"

RECURSIVE Itoa(_)
Itoa(n) == IF n < 0 THEN <<"-">> \o Itoa(0 - n)
           ELSE IF n < 10 THEN <<Digit(n)>>
           ELSE Itoa(n \div 10) \o <<Digit(n % 10)>>

SprintfReportIDSwapped(id, ts) == <<"R", "P", "T", "-">> \o Itoa(ts) \o <<"-">> \o Itoa(id)

\* fmt.Sprintf("RPT-%d-%d", studentID, time.Now().Unix())
SprintfReportID(id, ts) == <<"R", "P", "T", "-">> \o Itoa(id) \o <<"-">> \o Itoa(ts)

\* ------------------------------------------------------- models.Student
NilStudent == [isNil |-> TRUE, id |-> 0, firstName |-> "", lastName |-> ""]
NewStudent(id, n) == [isNil |-> FALSE, id |-> id, firstName |-> n[1], lastName |-> n[2]]
FormatName(s) == s.firstName \o " " \o s.lastName

NilMetadata == [isNil |-> TRUE, GeneratedAt |-> 0, GeneratedBy |-> "", ReportID |-> <<>>]

NilResult == [isNil |-> TRUE, ReportID |-> <<>>, StudentID |-> 0, StudentName |-> "",
              FilePath |-> "", GeneratedAt |-> 0, GeneratedBy |-> "", FileSize |-> 0]

NoStat == [err |-> TRUE, size |-> 0]
StatOutcomes == {NoStat} \cup {[err |-> FALSE, size |-> s] : s \in FileSizes}

NilStatus == [isNil |-> TRUE, Healthy |-> FALSE, Message |-> "", Timestamp |-> 0,
              nodejs_api |-> [set |-> FALSE, Status |-> "", Message |-> ""],
              pdf_generator |-> [set |-> FALSE, Status |-> "", Message |-> ""]]

\* ----------------------------------------------------------- constructors
NewReportService(nodeClient, pdfGenerator) ==
    [nodeClient |-> nodeClient, pdfGenerator |-> pdfGenerator]

NewReportServiceWithConcreteTypes(nodeClient, pdfGenerator) ==
    [nodeClient |-> ToInterface("*client.NodeJSClient", nodeClient),
     pdfGenerator |-> ToInterface("*pdf.Generator", pdfGenerator)]

ResetLocals ==
    /\ studentID = 0 /\ generatedBy = ""
    /\ student = NilStudent /\ metadata = NilMetadata
    /\ filePath = "" /\ statOut = NoStat
    /\ returns = <<>> /\ calls = <<>>
    /\ result = NilResult /\ err = NilError /\ status = NilStatus

Init ==
    /\ \/ /\ ctor = "NewReportServiceWithConcreteTypes"
          /\ \E nc \in Pointers, pg \in Pointers :
                rs = NewReportServiceWithConcreteTypes(nc, pg)
       \/ /\ ctor = "NewReportService"
          /\ \E nc \in InterfaceValues("*client.NodeJSClient"),
                pg \in InterfaceValues("*pdf.Generator") :
                rs = NewReportService(nc, pg)
    /\ clock = MinClock
    /\ op = "none" /\ pc = "idle"
    /\ ResetLocals


\* --------------------------------------------- invoking a collaborator
\* A method call on the nil interface panics before the method is entered.
\* A call on a non-nil interface holding a nil pointer enters the method
\* with a nil receiver.
CanInvoke(iface) == iface # NilInterface
NilReceiver(iface) == iface # NilInterface /\ iface.val = "nil"

\* ------------------------------------------------ GenerateStudentReport
ValidStudentIDOffByOne(id) == id >= 0

ValidStudentID(id) == id > 0

CallGenerateStudentReport ==
    /\ pc = "idle"
    /\ \E id \in StudentIDs, by \in Actors :
        /\ studentID' = id
        /\ generatedBy' = by
        /\ IF ValidStudentID(id)
           THEN /\ pc' = "fetch"
                /\ err' = NilError
           ELSE /\ pc' = "done"
                /\ err' = Errorf("invalid student ID: %d", id, NilError)
    /\ op' = "GenerateStudentReport"
    /\ UNCHANGED <<rs, ctor, clock, student, metadata, filePath, statOut,
                   returns, calls, result, status>>

AfterFetchNoNilCheck(stu, e, id) ==
    IF ~e.isNil
    THEN [pc |-> "done", err |-> Errorf("failed to fetch student data: %w", 0, e)]
    ELSE [pc |-> "metadata", err |-> NilError]

AfterFetchRetry(stu, e, id) ==
    IF ~e.isNil
    THEN [pc |-> "fetch", err |-> NilError]
    ELSE IF stu.isNil
    THEN [pc |-> "done", err |-> Errorf("student with ID %d not found", id, NilError)]
    ELSE [pc |-> "metadata", err |-> NilError]

\* the two checks that follow rs.nodeClient.GetStudentByID(studentID)
AfterFetch(stu, e, id) ==
    IF ~e.isNil
    THEN [pc |-> "done", err |-> Errorf("failed to fetch student data: %w", 0, e)]
    ELSE IF stu.isNil
    THEN [pc |-> "done", err |-> Errorf("student with ID %d not found", id, NilError)]
    ELSE [pc |-> "metadata", err |-> NilError]

\* what GetStudentByID(id) can hand back
FetchOutcomes(id) ==
    {[student |-> NilStudent, err |-> NewError(m)] : m \in CollaboratorErrors}
    \cup {[student |-> NilStudent, err |-> NilError]}
    \cup {[student |-> NewStudent(id, n), err |-> NilError] : n \in Names}
    \cup {[student |-> NewStudent(id, n), err |-> NewError(m)] :
             n \in Names, m \in CollaboratorErrors}

\* Step 1: student, err := rs.nodeClient.GetStudentByID(studentID)
FetchStudent ==
    /\ op = "GenerateStudentReport" /\ pc = "fetch"
    /\ CanInvoke(rs.nodeClient)
    /\ calls' = Append(calls, "GetStudentByID")
    /\ \E o \in FetchOutcomes(studentID) :
        /\ student' = o.student
        /\ returns' = Append(returns, o.err)
        /\ pc' = AfterFetch(o.student, o.err, studentID).pc
        /\ err' = AfterFetch(o.student, o.err, studentID).err
    /\ UNCHANGED <<rs, ctor, clock, op, studentID, generatedBy, metadata,
                   filePath, statOut, result, status>>

\* Step 2, first field: GeneratedAt: time.Now()
MetadataGeneratedAt ==
    /\ op = "GenerateStudentReport" /\ pc = "metadata"
    /\ metadata' = [isNil |-> FALSE, GeneratedAt |-> Now,
                    GeneratedBy |-> generatedBy, ReportID |-> <<>>]
    /\ pc' = "reportid"
    /\ UNCHANGED <<rs, ctor, clock, op, studentID, generatedBy, student,
                   filePath, statOut, returns, calls, result, err, status>>

\* Step 2, last field: ReportID from a second reading of the clock
MetadataReportID ==
    /\ op = "GenerateStudentReport" /\ pc = "reportid"
    /\ metadata' = [metadata EXCEPT !.ReportID = SprintfReportID(studentID, Unix(Now))]
    /\ pc' = "render"
    /\ UNCHANGED <<rs, ctor, clock, op, studentID, generatedBy, student,
                   filePath, statOut, returns, calls, result, err, status>>

AfterRenderIgnoringError(path, e) == [pc |-> "stat", err |-> NilError]

\* the check that follows rs.pdfGenerator.GenerateStudentReport(student, metadata)
AfterRender(path, e) ==
    IF ~e.isNil
    THEN [pc |-> "done", err |-> Errorf("failed to generate PDF report: %w", 0, e)]
    ELSE [pc |-> "stat", err |-> NilError]

RenderOutcomes ==
    {[path |-> "", err |-> NewError(m)] : m \in CollaboratorErrors}
    \cup {[path |-> p, err |-> NilError] : p \in Paths}

\* Step 3: filePath, err := rs.pdfGenerator.GenerateStudentReport(student, metadata)
RenderReport ==
    /\ op = "GenerateStudentReport" /\ pc = "render"
    /\ CanInvoke(rs.pdfGenerator)
    /\ calls' = Append(calls, "GenerateStudentReport")
    /\ \E o \in RenderOutcomes :
        /\ filePath' = o.path
        /\ returns' = Append(returns, o.err)
        /\ pc' = AfterRender(o.path, o.err).pc
        /\ err' = AfterRender(o.path, o.err).err
    /\ UNCHANGED <<rs, ctor, clock, op, studentID, generatedBy, student,
                   metadata, statOut, result, status>>

getActualFileSizeMinusOne(st) == IF ~st.err THEN st.size ELSE -1

\* if fileInfo, err := os.Stat(filePath); err == nil { return fileInfo.Size() }; return 0
getActualFileSize(st) == IF ~st.err THEN st.size ELSE 0

\* Step 5: result := &ReportResult{...}
NewReportResult(meta, id, stu, path, by, size) ==
    [isNil |-> FALSE, ReportID |-> meta.ReportID, StudentID |-> id,
     StudentName |-> FormatName(stu), FilePath |-> path,
     GeneratedAt |-> meta.GeneratedAt, GeneratedBy |-> by, FileSize |-> size]

\* Steps 4 and 5: probe the size, assemble the result, return it
StatAndAssemble ==
    /\ op = "GenerateStudentReport" /\ pc = "stat"
    /\ \E so \in StatOutcomes :
        /\ statOut' = so
        /\ result' = NewReportResult(metadata, studentID, student, filePath,
                                     generatedBy, getActualFileSize(so))
    /\ pc' = "done"
    /\ UNCHANGED <<rs, ctor, clock, op, studentID, generatedBy, student,
                   metadata, filePath, returns, calls, err, status>>

\* ---------------------------------------------------------- HealthCheck
NewHealthStatus(now) ==
    [isNil |-> FALSE, Healthy |-> TRUE, Message |-> "", Timestamp |-> now,
     nodejs_api |-> [set |-> FALSE, Status |-> "", Message |-> ""],
     pdf_generator |-> [set |-> FALSE, Status |-> "", Message |-> ""]]

ComponentStatus(st, msg) == [set |-> TRUE, Status |-> st, Message |-> msg]

CheckNodeAPIKeepsHealthy(st, e) ==
    IF ~e.isNil
    THEN [st EXCEPT !.nodejs_api = ComponentStatus("unhealthy", e.msg)]
    ELSE [st EXCEPT !.nodejs_api = ComponentStatus("healthy", "API is responsive")]

\* if err := rs.nodeClient.HealthCheck(); err != nil { ... } else { ... }
CheckNodeAPI(st, e) ==
    IF ~e.isNil
    THEN [st EXCEPT !.Healthy = FALSE,
                    !.nodejs_api = ComponentStatus("unhealthy", e.msg)]
    ELSE [st EXCEPT !.nodejs_api = ComponentStatus("healthy", "API is responsive")]

\* if generator := rs.pdfGenerator; generator != nil { ... } else { ... }
CheckPDFGenerator(st, generator) ==
    IF generator # NilInterface
    THEN [st EXCEPT !.pdf_generator = ComponentStatus("healthy", "Generator is ready")]
    ELSE [st EXCEPT !.Healthy = FALSE,
                    !.pdf_generator = ComponentStatus("unhealthy", "Generator not initialized")]

\* if status.Healthy { ... } else { ... }
SetStatusMessage(st) ==
    IF st.Healthy
    THEN [st EXCEPT !.Message = "All systems operational"]
    ELSE [st EXCEPT !.Message = "Some components are unhealthy"]

\* status := &HealthStatus{..., Timestamp: time.Now(), Healthy: true, ...}
CallHealthCheck ==
    /\ pc = "idle"
    /\ op' = "HealthCheck"
    /\ pc' = "probe"
    /\ status' = NewHealthStatus(Now)
    /\ UNCHANGED <<rs, ctor, clock, studentID, generatedBy, student, metadata,
                   filePath, statOut, returns, calls, result, err>>

HealthOutcomes == {NilError} \cup {NewError(m) : m \in CollaboratorErrors}

\* the liveness probe of the client, then the rest of HealthCheck
HealthProbe ==
    /\ op = "HealthCheck" /\ pc = "probe"
    /\ CanInvoke(rs.nodeClient)
    /\ calls' = Append(calls, "HealthCheck")
    /\ \E e \in HealthOutcomes :
        /\ returns' = Append(returns, e)
        /\ status' = SetStatusMessage(
                        CheckPDFGenerator(CheckNodeAPI(status, e), rs.pdfGenerator))
    /\ pc' = "done"
    /\ UNCHANGED <<rs, ctor, clock, op, studentID, generatedBy, student,
                   metadata, filePath, statOut, result, err>>

\* ---------------------------------------------------- CleanupOldReports
CallCleanupOldReports ==
    /\ pc = "idle"
    /\ op' = "CleanupOldReports"
    /\ pc' = "cleanup"
    /\ UNCHANGED <<rs, ctor, clock, locals>>

CleanupReturnWrapped(e) ==
    IF e.isNil THEN NilError ELSE Errorf("failed to clean up reports: %w", 0, e)

\* return rs.pdfGenerator.CleanupOldReports()
CleanupReturn(e) == e

CleanupOutcomes == {NilError} \cup {NewError(m) : m \in CollaboratorErrors}

CleanupDelegate ==
    /\ op = "CleanupOldReports" /\ pc = "cleanup"
    /\ CanInvoke(rs.pdfGenerator)
    /\ calls' = Append(calls, "CleanupOldReports")
    /\ \E e \in CleanupOutcomes :
        /\ returns' = Append(returns, e)
        /\ err' = CleanupReturn(e)
    /\ pc' = "done"
    /\ UNCHANGED <<rs, ctor, clock, op, studentID, generatedBy, student,
                   metadata, filePath, statOut, result, status>>

\* ----------------------------------------------------------------- panics
\* The collaborator each position is about to invoke, and the method name.
Callee ==
    CASE pc = "fetch" -> [iface |-> rs.nodeClient, method |-> "GetStudentByID"]
      [] pc = "render" -> [iface |-> rs.pdfGenerator, method |-> "GenerateStudentReport"]
      [] pc = "probe" -> [iface |-> rs.nodeClient, method |-> "HealthCheck"]
      [] pc = "cleanup" -> [iface |-> rs.pdfGenerator, method |-> "CleanupOldReports"]

\* A call through the nil interface panics before the method is entered.
PanicNilInterface ==
    /\ pc \in {"fetch", "render", "probe", "cleanup"}
    /\ ~CanInvoke(Callee.iface)
    /\ pc' = "panicked"
    /\ UNCHANGED <<rs, ctor, clock, op, locals>>

\* A method entered with a nil receiver (its body is outside this file) may
\* dereference it and panic, or complete like any other call.
PanicNilReceiver ==
    /\ pc \in {"fetch", "render", "probe", "cleanup"}
    /\ NilReceiver(Callee.iface)
    /\ calls' = Append(calls, Callee.method)
    /\ pc' = "panicked"
    /\ UNCHANGED <<rs, ctor, clock, op, studentID, generatedBy, student,
                   metadata, filePath, statOut, returns, result, err, status>>

\* ------------------------------------------------------------ environment
\* the caller takes the return value (or the panic unwinds); locals are gone
Return ==
    /\ pc \in {"done", "panicked"}
    /\ op' = "none" /\ pc' = "idle"
    /\ studentID' = 0 /\ generatedBy' = ""
    /\ student' = NilStudent /\ metadata' = NilMetadata
    /\ filePath' = "" /\ statOut' = NoStat
    /\ returns' = <<>> /\ calls' = <<>>
    /\ result' = NilResult /\ err' = NilError /\ status' = NilStatus
    /\ UNCHANGED <<rs, ctor, clock>>

Tick ==
    /\ clock < MaxClock
    /\ clock' = clock + 1
    /\ UNCHANGED <<rs, ctor, op, pc, locals>>

Next ==
    \/ CallGenerateStudentReport
    \/ FetchStudent
    \/ MetadataGeneratedAt
    \/ MetadataReportID
    \/ RenderReport
    \/ StatAndAssemble
    \/ CallHealthCheck
    \/ HealthProbe
    \/ CallCleanupOldReports
    \/ CleanupDelegate
    \/ PanicNilInterface
    \/ PanicNilReceiver
    \/ Return
    \/ Tick

Spec == Init /\ [][Next]_vars

TypeOK ==
    /\ clock \in MinClock .. MaxClock
    /\ op \in {"none", "GenerateStudentReport", "HealthCheck", "CleanupOldReports"}
    /\ pc \in {"idle", "fetch", "metadata", "reportid", "render", "stat",
               "probe", "cleanup", "done", "panicked"}


\* ------------------------------------------------------ reading the state
Returned(method) == op = method /\ pc = "done"

Count(seq, x) == Cardinality({i \in DOMAIN seq : seq[i] = x})

DecimalDigits == {"0", "1", "2", "3", "4", "5", "6", "7", "8", "9"}

DigitValue(c) == CHOOSE d \in 0 .. 9 : Digit(d) = c

RECURSIVE Atoi(_)
Atoi(s) == IF Len(s) = 0 THEN 0
           ELSE Atoi(SubSeq(s, 1, Len(s) - 1)) * 10 + DigitValue(s[Len(s)])

\* Reads a report identifier back as RPT-<decimal>-<decimal>.
ParseReportID(s) ==
    LET dashes == {i \in DOMAIN s : s[i] = "-"}
        second == CHOOSE j \in dashes : \A i \in dashes : i <= j
        wellFormed ==
            /\ Len(s) >= 7
            /\ SubSeq(s, 1, 4) = <<"R", "P", "T", "-">>
            /\ Cardinality(dashes) = 2
            /\ second > 5 /\ second < Len(s)
            /\ \A i \in 5 .. Len(s) : i \in dashes \/ s[i] \in DecimalDigits
    IN IF wellFormed
       THEN [ok |-> TRUE, id |-> Atoi(SubSeq(s, 5, second - 1)),
             ts |-> Atoi(SubSeq(s, second + 1, Len(s)))]
       ELSE [ok |-> FALSE, id |-> 0, ts |-> 0]

FetchSucceeded == Len(returns) >= 1 /\ returns[1].isNil /\ ~student.isNil
RenderSucceeded == Len(returns) >= 2 /\ returns[2].isNil

\* ------------------------------------------------------------------ claims

\* C1: a GenerateStudentReport call with studentID <= 0 is over at once with a
\* nil result and the invalid-ID error for that ID, and no collaborator method
\* is invoked at any point of the call.
C1_InvalidIDRejected ==
    (op = "GenerateStudentReport" /\ studentID <= 0) =>
        /\ pc = "done"
        /\ result.isNil
        /\ err = Errorf("invalid student ID: %d", studentID, NilError)
        /\ calls = <<>>

C1_Witness == Returned("GenerateStudentReport") /\ studentID = 0 /\ ~err.isNil

\* C2: once GetStudentByID has returned (nil, nil) for a positive studentID,
\* the call is over with a nil result and the not-found error carrying the
\* requested ID, and the renderer was not invoked.
C2_NotFound ==
    (/\ op = "GenerateStudentReport" /\ studentID > 0
     /\ Len(returns) >= 1 /\ returns[1].isNil /\ student.isNil) =>
        /\ pc = "done"
        /\ result.isNil
        /\ err = Errorf("student with ID %d not found", studentID, NilError)
        /\ err.arg = studentID
        /\ Count(calls, "GenerateStudentReport") = 0

C2_Witness ==
    /\ Returned("GenerateStudentReport") /\ studentID = MaxStudentID
    /\ calls = <<"GetStudentByID">> /\ returns = <<NilError>> /\ student.isNil

\* C3: a non-nil ReportResult exists only at the return of a call in which
\* GetStudentByID gave a non-nil student without error and the renderer then
\* returned without error; every return carries exactly one of result, error.
C3_NoPartialResult ==
    /\ ~result.isNil =>
        /\ Returned("GenerateStudentReport")
        /\ calls = <<"GetStudentByID", "GenerateStudentReport">>
        /\ FetchSucceeded
        /\ RenderSucceeded
    /\ Returned("GenerateStudentReport") => (result.isNil # err.isNil)

C3_Witness ==
    /\ Returned("GenerateStudentReport") /\ ~result.isNil /\ err.isNil
    /\ FetchSucceeded /\ RenderSucceeded

\* C4: a successful result has report_id RPT-<studentID>-<timestamp> with the
\* input studentID, student_id and generated_by equal to the inputs, file_path
\* equal to the renderer's path, student_name the student's formatted name.
C4_ResultFields ==
    (Returned("GenerateStudentReport") /\ ~result.isNil) =>
        /\ ParseReportID(result.ReportID).ok
        /\ ParseReportID(result.ReportID).id = studentID
        /\ result.StudentID = studentID
        /\ result.GeneratedBy = generatedBy
        /\ result.FilePath = filePath
        /\ filePath \in Paths
        /\ result.StudentName = FormatName(student)

C4_Witness ==
    /\ Returned("GenerateStudentReport") /\ ~result.isNil
    /\ studentID = MaxStudentID /\ result.StudentID = MaxStudentID
    /\ result.GeneratedBy = "admin1" /\ result.StudentName = "Ada Lovelace"
    /\ result.FilePath = "/reports/42.pdf"

\* C5: in every successful result the timestamp suffix of report_id is the
\* Unix second of the same result's generated_at.
C5_ReportIDFromGeneratedAt ==
    (Returned("GenerateStudentReport") /\ ~result.isNil) =>
        /\ ParseReportID(result.ReportID).ok
        /\ ParseReportID(result.ReportID).ts = Unix(result.GeneratedAt)

\* C6: when fetch and render both succeeded the call returns a result and no
\* error whatever os.Stat answered; file_size is 0 when the probe failed and
\* the probed size when it succeeded.
C6_SizeProbeBestEffort ==
    (Returned("GenerateStudentReport") /\ FetchSucceeded /\ RenderSucceeded) =>
        /\ ~result.isNil
        /\ err.isNil
        /\ statOut.err => result.FileSize = 0
        /\ ~statOut.err => result.FileSize = statOut.size

C6_Witness ==
    /\ Returned("GenerateStudentReport") /\ FetchSucceeded /\ RenderSucceeded
    /\ statOut.err /\ ~result.isNil /\ result.FileSize = 0

\* C7: the HealthStatus HealthCheck returns has both component entries, is
\* healthy exactly when both component statuses are "healthy", and carries
\* "All systems operational" exactly when healthy, "Some components are
\* unhealthy" otherwise.
C7_HealthAggregation ==
    Returned("HealthCheck") =>
        /\ ~status.isNil
        /\ status.nodejs_api.set /\ status.pdf_generator.set
        /\ status.Healthy <=> (/\ status.nodejs_api.Status = "healthy"
                               /\ status.pdf_generator.Status = "healthy")
        /\ status.Message = IF status.Healthy THEN "All systems operational"
                            ELSE "Some components are unhealthy"

C7_Witness ==
    /\ Returned("HealthCheck") /\ ~status.Healthy
    /\ status.nodejs_api.Status = "unhealthy"
    /\ status.pdf_generator.Status = "healthy"

\* C8: HealthCheck reports the renderer healthy exactly when the service holds
\* an initialized generator; otherwise the entry is "unhealthy" with message
\* "Generator not initialized" and the overall health is false.
C8_GeneratorHealthIffInitialized ==
    Returned("HealthCheck") =>
        /\ status.pdf_generator.Status = "healthy" <=> rs.pdfGenerator.val = "allocated"
        /\ rs.pdfGenerator.val # "allocated" =>
              /\ status.pdf_generator =
                    ComponentStatus("unhealthy", "Generator not initialized")
              /\ ~status.Healthy

\* C9: a CleanupOldReports call invokes only the renderer's CleanupOldReports,
\* at most once while running and exactly once when it returns, and returns
\* the very error value (or nil) the renderer returned.
C9_CleanupPassThrough ==
    /\ op = "CleanupOldReports" =>
        /\ Len(calls) <= 1
        /\ \A i \in DOMAIN calls : calls[i] = "CleanupOldReports"
    /\ Returned("CleanupOldReports") =>
        /\ calls = <<"CleanupOldReports">>
        /\ Len(returns) = 1
        /\ err = returns[1]

C9_Witness ==
    /\ Returned("CleanupOldReports") /\ ~err.isNil
    /\ returns = <<NewError("connection refused")>>

\* C10: within one GenerateStudentReport call GetStudentByID and the renderer
\* are each invoked at most once, the renderer only after a fetch that gave a
\* non-nil student without error; a successful call has exactly one renderer
\* invocation, a call failing at validation, fetch or not-found has none.
C10_CallOrder ==
    op = "GenerateStudentReport" =>
        /\ Count(calls, "GetStudentByID") <= 1
        /\ Count(calls, "GenerateStudentReport") <= 1
        /\ Count(calls, "GenerateStudentReport") = 1 =>
              /\ calls = <<"GetStudentByID", "GenerateStudentReport">>
              /\ FetchSucceeded
        /\ (pc = "done" /\ ~result.isNil) =>
              Count(calls, "GenerateStudentReport") = 1
        /\ (pc = "done" /\ err.msg \in {"invalid student ID: %d",
                                        "failed to fetch student data: %w",
                                        "student with ID %d not found"}) =>
              Count(calls, "GenerateStudentReport") = 0

C10_Witness ==
    /\ Returned("GenerateStudentReport")
    /\ err.msg = "failed to fetch student data: %w"
    /\ err.wraps = "connection refused"
    /\ calls = <<"GetStudentByID">>

====
